---- MODULE Spec2Model ----
(***************************************************************************)
(* Model of pybamm/models/submodels/potential.py: the Potential submodel,  *)
(* which derives open-circuit potential and reaction-overpotential output  *)
(* variables from symbolic expressions.                                    *)
(*                                                                         *)
(* Expressions are symbolic trees, built exactly as the source builds      *)
(* them.  A node is a record                                               *)
(*     [op, attr, args, domain, value]                                     *)
(* op     the node class ("Scalar", "Variable", "Parameter", "Broadcast",  *)
(*        "Integral", "BoundaryValue", "Addition", "Subtraction",          *)
(*        "Multiplication", "Division");                                   *)
(* attr   the node's name, integration variable or side;                   *)
(* args   the children;                                                    *)
(* domain the list of domain names the node is tagged with;                *)
(* value  for a leaf, its numerical value: one rational for a scalar, one  *)
(*        rational per mesh cell for a field.                              *)
(* Eval gives the numerical value of a tree on a mesh of NPts cells per    *)
(* electrode; numbers are exact rationals <<num, den>>.                    *)
(***************************************************************************)
EXTENDS Integers, Sequences, FiniteSets, TLC

VARIABLES set_of_parameters, args, last, prev

vars == <<set_of_parameters, args, last, prev>>

(* Bound of the model: the mesh cells of an electrode *)
NPts == 2

-----------------------------------------------------------------------------
(* Exact rational arithmetic, <<numerator, denominator>> in lowest terms *)

Abs(x) == IF x < 0 THEN -x ELSE x

RECURSIVE GCD(_, _)
GCD(a, b) == IF b = 0 THEN a ELSE GCD(b, a % b)

Norm(n, d) ==
    LET s == IF d < 0 THEN -1 ELSE 1
        g == GCD(Abs(n), Abs(d))
    IN  <<(s * n) \div g, (s * d) \div g>>

Rat(n) == <<n, 1>>
RAdd(x, y) == Norm(x[1] * y[2] + y[1] * x[2], x[2] * y[2])
RSub(x, y) == Norm(x[1] * y[2] - y[1] * x[2], x[2] * y[2])
RMul(x, y) == Norm(x[1] * y[1], x[2] * y[2])
RDiv(x, y) == Norm(x[1] * y[2], x[2] * y[1])

RECURSIVE RSum(_)
RSum(s) == IF s = <<>> THEN Rat(0) ELSE RAdd(Head(s), RSum(Tail(s)))

-----------------------------------------------------------------------------
(* The expression tree of the host framework *)

NEGATIVE == <<"negative electrode">>
POSITIVE == <<"positive electrode">>

Node(op, attr, children, domain, value) ==
    [op |-> op, attr |-> attr, args |-> children, domain |-> domain, value |-> value]

Scalar(name, v) == Node("Scalar", name, <<>>, <<>>, <<v>>)
Variable(name, domain, vs) == Node("Variable", name, <<>>, domain, vs)
Parameter(name) == Node("Parameter", name, <<>>, <<>>, <<set_of_parameters[name]>>)

BinaryDomain(a, b) == IF a.domain # <<>> THEN a.domain ELSE b.domain

Broadcast(child, domain) == Node("Broadcast", "", <<child>>, domain, <<>>)
Integral(child, x) == Node("Integral", x, <<child>>, <<>>, <<>>)
BoundaryValue(child, side) == Node("BoundaryValue", side, <<child>>, <<>>, <<>>)
Addition(a, b) == Node("Addition", "", <<a, b>>, BinaryDomain(a, b), <<>>)
Subtraction(a, b) == Node("Subtraction", "", <<a, b>>, BinaryDomain(a, b), <<>>)
Multiplication(a, b) == Node("Multiplication", "", <<a, b>>, BinaryDomain(a, b), <<>>)
Division(a, b) == Node("Division", "", <<a, b>>, BinaryDomain(a, b), <<>>)

(* pybamm.standard_spatial_vars *)
x_n == "x_n"
x_p == "x_p"

(* The length of the interval a spatial variable runs over *)
Length(x) == IF x = x_n THEN set_of_parameters["l_n"] ELSE set_of_parameters["l_p"]

(* The arithmetic of a binary node on two numbers *)
Apply(op, x, y) ==
    CASE op = "Addition" -> RAdd(x, y)
      [] op = "Subtraction" -> RSub(x, y)
      [] op = "Multiplication" -> RMul(x, y)
      [] op = "Division" -> RDiv(x, y)

(* Pointwise combination of two values, a single number being spread over
   the cells of the other operand *)
Pointwise(op, u, v) ==
    LET n == IF Len(u) > Len(v) THEN Len(u) ELSE Len(v)
        at(w, i) == IF Len(w) = 1 THEN w[1] ELSE w[i]
    IN  [i \in 1..n |-> Apply(op, at(u, i), at(v, i))]

RECURSIVE Eval(_)
Eval(e) ==
    CASE e.op \in {"Scalar", "Variable", "Parameter"} -> e.value
      [] e.op = "Broadcast" ->
            LET c == Eval(e.args[1])
            IN  IF Len(c) = 1 THEN [i \in 1..NPts |-> c[1]] ELSE c
      [] e.op = "Integral" ->
            LET c == Eval(e.args[1])
            IN  IF Len(c) = 1
                THEN <<RMul(c[1], Length(e.attr))>>
                ELSE <<RMul(RDiv(Length(e.attr), Rat(Len(c))), RSum(c))>>
      [] e.op = "BoundaryValue" ->
            LET c == Eval(e.args[1])
            IN  IF e.attr = "left" THEN <<c[1]>> ELSE <<c[Len(c)]>>
      [] e.op \in {"Addition", "Subtraction", "Multiplication", "Division"} ->
            Pointwise(e.op, Eval(e.args[1]), Eval(e.args[2]))

(* A Python dict literal: the keys of the items, a later item replacing an
   earlier one of the same key *)
Dict(items) ==
    [k \in {items[i][1] : i \in 1..Len(items)} |->
        LET at == CHOOSE i \in 1..Len(items) :
                      /\ items[i][1] = k
                      /\ \A j \in (i + 1)..Len(items) : items[j][1] # k
        IN  items[at][2]]

-----------------------------------------------------------------------------
(* Potential.get_derived_open_circuit_potentials(ocp_n, ocp_p).
   Each local of the source is an operator of the inputs it is computed from;
   n and p are the arguments as the caller passed them. *)

(* Broadcast if necessary *)
ocp_n(n) == IF n.domain = <<>> THEN Broadcast(n, NEGATIVE) ELSE n
ocp_p(p) == IF p.domain = <<>> THEN Broadcast(p, POSITIVE) ELSE p

(* Dimensionless *)
(* Variant: the integral is not divided by the electrode's length *)
ocp_n_av_NoLength(n) == Integral(ocp_n(n), x_n)
ocp_n_av(n) == Division(Integral(ocp_n(n), x_n), Parameter("l_n"))
(* Variant: the integral is divided by the other electrode's length *)
ocp_p_av_WrongLength(p) == Division(Integral(ocp_p(p), x_p), Parameter("l_n"))
ocp_p_av(p) == Division(Integral(ocp_p(p), x_p), Parameter("l_p"))
ocp_n_left(n) == BoundaryValue(ocp_n(n), "left")
ocp_p_right(p) == BoundaryValue(ocp_p(p), "right")
(* Variant: negative minus positive *)
ocv_av_Reversed(n, p) == Subtraction(ocp_n_av(n), ocp_p_av(p))
ocv_av(n, p) == Subtraction(ocp_p_av(p), ocp_n_av(n))
ocv(n, p) == Subtraction(ocp_p_right(p), ocp_n_left(n))

(* Dimensional *)
ocp_n_dim(n) ==
    Addition(Parameter("U_n_ref"), Multiplication(Parameter("potential_scale"), ocp_n(n)))
ocp_p_dim(p) ==
    Addition(Parameter("U_p_ref"), Multiplication(Parameter("potential_scale"), ocp_p(p)))
ocp_n_av_dim(n) ==
    Addition(Parameter("U_n_ref"), Multiplication(Parameter("potential_scale"), ocp_n_av(n)))
(* Variant: the positive average is offset by the negative reference *)
ocp_p_av_dim_WrongRef(p) ==
    Addition(Parameter("U_n_ref"), Multiplication(Parameter("potential_scale"), ocp_p_av(p)))
ocp_p_av_dim(p) ==
    Addition(Parameter("U_p_ref"), Multiplication(Parameter("potential_scale"), ocp_p_av(p)))
ocp_n_left_dim(n) ==
    Addition(Parameter("U_n_ref"), Multiplication(Parameter("potential_scale"), ocp_n_left(n)))
ocp_p_right_dim(p) ==
    Addition(Parameter("U_p_ref"), Multiplication(Parameter("potential_scale"), ocp_p_right(p)))
ocv_av_dim(n, p) == Subtraction(ocp_p_av_dim(p), ocp_n_av_dim(n))
ocv_dim(n, p) == Subtraction(ocp_p_right_dim(p), ocp_n_left_dim(n))

(* Variables: the items of the returned dict literal, in the order written *)
ocp_variables(n, p) ==
       << <<"Negative electrode open circuit potential", ocp_n(n)>>,
            <<"Positive electrode open circuit potential", ocp_p(p)>>,
            <<"Average negative electrode open circuit potential", ocp_n_av(n)>>,
            <<"Average positive electrode open circuit potential", ocp_p_av(p)>>,
            <<"Average open circuit voltage", ocv_av(n, p)>>,
            <<"Measured open circuit voltage", ocv(n, p)>>,
            <<"Negative electrode open circuit potential [V]", ocp_n_dim(n)>>,
            <<"Positive electrode open circuit potential [V]", ocp_p_dim(p)>>,
            <<"Average negative electrode open circuit potential [V]", ocp_n_av_dim(n)>>,
            <<"Average positive electrode open circuit potential [V]", ocp_p_av_dim(p)>>,
            <<"Average open circuit voltage [V]", ocv_av_dim(n, p)>>,
            <<"Measured open circuit voltage [V]", ocv_dim(n, p)>> >>

(* Variant: the last item's name repeats the name of the item before it *)
get_derived_open_circuit_potentials_DuplicateName(n, p) ==
    Dict([ocp_variables(n, p) EXCEPT ![12][1] = "Average open circuit voltage [V]"])

get_derived_open_circuit_potentials(n, p) == Dict(ocp_variables(n, p))

-----------------------------------------------------------------------------
(* Potential.get_derived_reaction_overpotentials(eta_r_n, eta_r_p) *)

(* Broadcast if necessary *)
eta_r_n(n) == IF n.domain = <<>> THEN Broadcast(n, NEGATIVE) ELSE n
(* Variant: the positive argument is broadcast to the negative electrode *)
eta_r_p_WrongDomain(p) == IF p.domain = <<>> THEN Broadcast(p, NEGATIVE) ELSE p
eta_r_p(p) == IF p.domain = <<>> THEN Broadcast(p, POSITIVE) ELSE p

(* Derived and dimensional reaction overpotentials *)
eta_r_n_av(n) == Division(Integral(eta_r_n(n), x_n), Parameter("l_n"))
eta_r_p_av(p) == Division(Integral(eta_r_p(p), x_p), Parameter("l_p"))
eta_r_av(n, p) == Subtraction(eta_r_p_av(p), eta_r_n_av(n))

(* Variant: a reference potential is added, as for the open-circuit potentials *)
eta_r_n_dim_WithOffset(n) ==
    Addition(Parameter("U_n_ref"), Multiplication(Parameter("potential_scale"), eta_r_n(n)))
eta_r_n_dim(n) == Multiplication(Parameter("potential_scale"), eta_r_n(n))
eta_r_p_dim(p) == Multiplication(Parameter("potential_scale"), eta_r_p(p))
eta_r_n_av_dim(n) == Multiplication(Parameter("potential_scale"), eta_r_n_av(n))
eta_r_p_av_dim(p) == Multiplication(Parameter("potential_scale"), eta_r_p_av(p))
eta_r_av_dim(n, p) == Multiplication(Parameter("potential_scale"), eta_r_av(n, p))

(* Update variables: the items of the returned dict literal, in the order written *)
eta_variables(n, p) ==
       << <<"Negative reaction overpotential", eta_r_n(n)>>,
            <<"Positive reaction overpotential", eta_r_p(p)>>,
            <<"Average negative reaction overpotential", eta_r_n_av(n)>>,
            <<"Average positive reaction overpotential", eta_r_p_av(p)>>,
            <<"Average reaction overpotential", eta_r_av(n, p)>>,
            <<"Negative reaction overpotential [V]", eta_r_n_dim(n)>>,
            <<"Positive reaction overpotential [V]", eta_r_p_dim(p)>>,
            <<"Average negative reaction overpotential [V]", eta_r_n_av_dim(n)>>,
            <<"Average positive reaction overpotential [V]", eta_r_p_av_dim(p)>>,
            <<"Average reaction overpotential [V]", eta_r_av_dim(n, p)>> >>

(* Variant: the last item's name lacks its " [V]" *)
get_derived_reaction_overpotentials_DuplicateName(n, p) ==
    Dict([eta_variables(n, p) EXCEPT ![10][1] = "Average reaction overpotential"])

(* Variant: the negative average is given the positive electrode's average *)
get_derived_reaction_overpotentials_WrongElectrode(n, p) ==
    Dict([eta_variables(n, p) EXCEPT ![3][2] = eta_r_p_av(p)])

get_derived_reaction_overpotentials(n, p) == Dict(eta_variables(n, p))

-----------------------------------------------------------------------------
(* The submodel and its caller.
   set_of_parameters  the parameter bundle given to Potential.__init__;
   args               the two expression objects the caller passed to the
                      latest call, as they are after it (<<>> before any call);
   last               the latest call: the function called, its arguments as
                      they were passed, the mapping it returned;
   prev               the call before the latest one.
   The submodel keeps nothing between calls; last and prev are what the caller
   observed, kept so that two calls can be compared. *)

Lengths == {<<1, 4>>, <<1, 2>>}
Scales == {<<1, 40>>, <<2, 1>>}

ParameterSets ==
    [l_n : Lengths, l_p : Lengths, U_n_ref : {<<1, 5>>}, U_p_ref : {<<1, 5>>, <<4, 1>>},
     potential_scale : Scales]

(* A field that varies in space: cell i holds the value first + i *)
Ramp(first) == [i \in 1..NPts |-> Rat(first + i)]

(* What the caller may pass for the negative and for the positive electrode:
   a spatially uniform value (no domain) or a field on that electrode *)
Inputs_n ==
    { Scalar("zero", Rat(0)),
      Scalar("c", Rat(3)),
      Variable("u_n", NEGATIVE, Ramp(0)) }

Inputs_p ==
    { Scalar("zero", Rat(0)),
      Scalar("d", Rat(5)),
      Variable("u_p", POSITIVE, Ramp(4)) }

NoCall == [fn |-> "none", n |-> <<>>, p |-> <<>>, ret |-> [k \in {} |-> k]]

Init ==
    /\ set_of_parameters \in ParameterSets
    /\ args = <<>>
    /\ last = NoCall
    /\ prev = NoCall

(* Variant: the broadcast is done on the caller's objects *)
CallOCP_InPlace ==
    \E n \in Inputs_n, p \in Inputs_p :
        /\ last' = [fn |-> "get_derived_open_circuit_potentials", n |-> n, p |-> p,
                    ret |-> get_derived_open_circuit_potentials(n, p)]
        /\ prev' = last
        /\ args' = <<ocp_n(n), ocp_p(p)>>
        /\ UNCHANGED set_of_parameters

CallOCP ==
    \E n \in Inputs_n, p \in Inputs_p :
        /\ last' = [fn |-> "get_derived_open_circuit_potentials", n |-> n, p |-> p,
                    ret |-> get_derived_open_circuit_potentials(n, p)]
        /\ prev' = last
        /\ args' = <<n, p>>
        /\ UNCHANGED set_of_parameters

CallEta ==
    \E n \in Inputs_n, p \in Inputs_p :
        /\ last' = [fn |-> "get_derived_reaction_overpotentials", n |-> n, p |-> p,
                    ret |-> get_derived_reaction_overpotentials(n, p)]
        /\ prev' = last
        /\ args' = <<n, p>>
        /\ UNCHANGED set_of_parameters

Next == CallOCP \/ CallEta

Spec == Init /\ [][Next]_vars

-----------------------------------------------------------------------------
(* What the claims are stated over *)

OCP == "get_derived_open_circuit_potentials"
ETA == "get_derived_reaction_overpotentials"

V(name) == name \o " [V]"

(* The numerical value of an entry of the latest mapping *)
Val(name) == Eval(last.ret[name])

(* ref + scale * v, cell by cell *)
Affine(ref, scale, v) == Pointwise("Addition", <<ref>>, Pointwise("Multiplication", <<scale>>, v))

U_n_ref == set_of_parameters["U_n_ref"]
U_p_ref == set_of_parameters["U_p_ref"]
potential_scale == set_of_parameters["potential_scale"]

IsZero(v) == \A i \in 1..Len(v) : v[i] = Rat(0)

(* C1: in get_derived_open_circuit_potentials the average voltage is the
   average positive OCP minus the average negative OCP, and the measured
   voltage is a boundary value of the positive field minus a boundary value of
   the negative field: positive minus negative, averages with averages and
   boundary values with boundary values. *)
C1_VoltagePairing ==
    last.fn = OCP =>
        /\ last.ret["Average open circuit voltage"] =
              Subtraction(last.ret["Average positive electrode open circuit potential"],
                          last.ret["Average negative electrode open circuit potential"])
        /\ \E sp \in {"left", "right"}, sn \in {"left", "right"} :
              last.ret["Measured open circuit voltage"] =
                  Subtraction(
                      BoundaryValue(last.ret["Positive electrode open circuit potential"], sp),
                      BoundaryValue(last.ret["Negative electrode open circuit potential"], sn))
        /\ Val("Average open circuit voltage") =
              Pointwise("Subtraction", Val("Average positive electrode open circuit potential"),
                              Val("Average negative electrode open circuit potential"))

(* A call on two fields that vary in space, where the average voltage, the
   measured voltage and the reversed difference are three different numbers *)
C1_Witness ==
    /\ last.fn = OCP
    /\ last.n.op = "Variable"
    /\ last.p.op = "Variable"
    /\ Val("Average open circuit voltage") # Val("Measured open circuit voltage")
    /\ Val("Average open circuit voltage") =
          Pointwise("Subtraction", Val("Average positive electrode open circuit potential"),
                          Val("Average negative electrode open circuit potential"))
    /\ Val("Average open circuit voltage") #
          Pointwise("Subtraction", Val("Average negative electrode open circuit potential"),
                          Val("Average positive electrode open circuit potential"))

(* C2: in get_derived_open_circuit_potentials every " [V]" entry is the
   affine rescaling of the entry of the same name without " [V]": U_n_ref for
   the negative field and average, U_p_ref for the positive field and average,
   U_p_ref - U_n_ref for the two voltages, each plus potential_scale times the
   dimensionless value. *)
C2_AffineRescaling ==
    last.fn = OCP =>
        /\ \A b \in {"Negative electrode open circuit potential",
                     "Average negative electrode open circuit potential"} :
              /\ last.ret[V(b)] =
                    Addition(Parameter("U_n_ref"),
                             Multiplication(Parameter("potential_scale"), last.ret[b]))
              /\ Val(V(b)) = Affine(U_n_ref, potential_scale, Val(b))
        /\ \A b \in {"Positive electrode open circuit potential",
                     "Average positive electrode open circuit potential"} :
              /\ last.ret[V(b)] =
                    Addition(Parameter("U_p_ref"),
                             Multiplication(Parameter("potential_scale"), last.ret[b]))
              /\ Val(V(b)) = Affine(U_p_ref, potential_scale, Val(b))
        /\ \A b \in {"Average open circuit voltage", "Measured open circuit voltage"} :
              Val(V(b)) = Affine(RSub(U_p_ref, U_n_ref), potential_scale, Val(b))

(* A call with distinct reference potentials and non-zero inputs, so that the
   offsets and the scale all show in the result *)
C2_Witness ==
    /\ last.fn = OCP
    /\ U_n_ref # U_p_ref
    /\ ~IsZero(Eval(last.n))
    /\ ~IsZero(Eval(last.p))
    /\ Val("Average open circuit voltage [V]") # Val("Average open circuit voltage")
    /\ Val("Measured open circuit voltage [V]") # Val("Average open circuit voltage [V]")

EtaNames ==
    {"Negative reaction overpotential", "Positive reaction overpotential",
     "Average negative reaction overpotential", "Average positive reaction overpotential",
     "Average reaction overpotential"}

(* C3: in get_derived_reaction_overpotentials every " [V]" entry is
   potential_scale times the entry of the same name without " [V]", with no
   offset (a zero overpotential gives zero volts), and the dimensional average
   overpotential is potential_scale times (average positive minus average
   negative), which is the difference of the two dimensional averages. *)
C3_ScaleOnly ==
    last.fn = ETA =>
        /\ \A b \in EtaNames :
              /\ last.ret[V(b)] =
                    Multiplication(Parameter("potential_scale"), last.ret[b])
              /\ Val(V(b)) = Pointwise("Multiplication", <<potential_scale>>, Val(b))
              /\ IsZero(Val(b)) => IsZero(Val(V(b)))
        /\ Val("Average reaction overpotential [V]") =
              Pointwise("Multiplication", <<potential_scale>>,
                        Pointwise("Subtraction", Val("Average positive reaction overpotential"),
                                        Val("Average negative reaction overpotential")))
        /\ Val("Average reaction overpotential [V]") =
              Pointwise("Subtraction", Val("Average positive reaction overpotential [V]"),
                              Val("Average negative reaction overpotential [V]"))

(* A call with a zero negative overpotential and a non-zero positive one *)
C3_Witness ==
    /\ last.fn = ETA
    /\ IsZero(Val("Negative reaction overpotential"))
    /\ IsZero(Val("Negative reaction overpotential [V]"))
    /\ ~IsZero(Val("Average reaction overpotential [V]"))
    /\ Val("Average reaction overpotential [V]") # Val("Average reaction overpotential")

(* The entries that hold the two fields of the latest call *)
Field_n ==
    IF last.fn = OCP THEN last.ret["Negative electrode open circuit potential"]
    ELSE last.ret["Negative reaction overpotential"]
Field_p ==
    IF last.fn = OCP THEN last.ret["Positive electrode open circuit potential"]
    ELSE last.ret["Positive reaction overpotential"]

(* C4: in both functions an argument with an empty domain is broadcast to its
   own electrode, an argument that carries a domain is used as supplied, each
   argument on its own; the field entries always carry a domain. *)
C4_BroadcastIfNecessary ==
    last.fn \in {OCP, ETA} =>
        /\ Field_n = IF last.n.domain = <<>> THEN Broadcast(last.n, NEGATIVE) ELSE last.n
        /\ Field_p = IF last.p.domain = <<>> THEN Broadcast(last.p, POSITIVE) ELSE last.p
        /\ Field_n.domain # <<>>
        /\ Field_p.domain # <<>>

(* Two consecutive calls, one of each function, the latest with a uniform
   negative argument and a positive field, the one before the other way round *)
C4_Witness ==
    /\ {last.fn, prev.fn} = {OCP, ETA}
    /\ last.n.domain = <<>> /\ last.p.domain = POSITIVE
    /\ Field_n.op = "Broadcast" /\ Field_n.domain = NEGATIVE
    /\ Field_p = last.p
    /\ prev.n.domain = NEGATIVE /\ prev.p.domain = <<>>

(* C5: in get_derived_open_circuit_potentials the average of an electrode is
   the integral of its field over its own spatial variable divided by its own
   length, and the boundary values are those at the left of the negative and
   at the right of the positive electrode; both are taken of the field as it
   is after the broadcast step. *)
C5_AverageAndBoundary ==
    last.fn = OCP =>
        /\ last.ret["Average negative electrode open circuit potential"] =
              Division(Integral(Field_n, x_n), Parameter("l_n"))
        /\ last.ret["Average positive electrode open circuit potential"] =
              Division(Integral(Field_p, x_p), Parameter("l_p"))
        /\ last.ret["Measured open circuit voltage"] =
              Subtraction(BoundaryValue(Field_p, "right"), BoundaryValue(Field_n, "left"))
        /\ Field_n.domain # <<>> /\ Field_p.domain # <<>>
        /\ <<RMul(Val("Average negative electrode open circuit potential")[1],
                  set_of_parameters["l_n"])>> = Eval(Integral(Field_n, x_n))
        /\ <<RMul(Val("Average positive electrode open circuit potential")[1],
                  set_of_parameters["l_p"])>> = Eval(Integral(Field_p, x_p))

(* A call on electrodes of different lengths, a field that varies in space on
   the positive one and a uniform value on the negative one *)
C5_Witness ==
    /\ last.fn = OCP
    /\ set_of_parameters["l_n"] # set_of_parameters["l_p"]
    /\ last.n.domain = <<>> /\ ~IsZero(Eval(last.n))
    /\ last.p.op = "Variable"
    /\ Eval(BoundaryValue(Field_p, "left")) # Eval(BoundaryValue(Field_p, "right"))

OcpNames ==
    {"Negative electrode open circuit potential",
     "Positive electrode open circuit potential",
     "Average negative electrode open circuit potential",
     "Average positive electrode open circuit potential",
     "Average open circuit voltage",
     "Measured open circuit voltage"}

(* C6: get_derived_open_circuit_potentials returns exactly twelve names: the
   six dimensionless quantities and each of them with " [V]" appended. *)
C6_TwelveNames ==
    last.fn = OCP =>
        /\ DOMAIN last.ret = OcpNames \cup {V(b) : b \in OcpNames}
        /\ Cardinality(DOMAIN last.ret) = 12

C6_Witness ==
    /\ last.fn = OCP
    /\ "Measured open circuit voltage [V]" \in DOMAIN last.ret

RECURSIVE HasOp(_, _)
HasOp(e, op) == e.op = op \/ \E i \in 1..Len(e.args) : HasOp(e.args[i], op)

(* C7: get_derived_reaction_overpotentials returns exactly ten names: the
   five dimensionless quantities and each of them with " [V]" appended; no
   entry is or uses a boundary value. *)
C7_TenNames ==
    last.fn = ETA =>
        /\ DOMAIN last.ret = EtaNames \cup {V(b) : b \in EtaNames}
        /\ Cardinality(DOMAIN last.ret) = 10
        /\ \A k \in DOMAIN last.ret : ~HasOp(last.ret[k], "BoundaryValue")

(* The call before was to the other function, whose mapping does use boundary
   values *)
C7_Witness ==
    /\ last.fn = ETA
    /\ "Average reaction overpotential [V]" \in DOMAIN last.ret
    /\ prev.fn = OCP
    /\ \E k \in DOMAIN prev.ret : HasOp(prev.ret[k], "BoundaryValue")

Names(fn) ==
    IF fn = OCP THEN OcpNames \cup {V(b) : b \in OcpNames}
    ELSE EtaNames \cup {V(b) : b \in EtaNames}

SameCall(c, d) == c.fn = d.fn /\ c.n = d.n /\ c.p = d.p

(* C8: the functions are stateless and have no error outcome: every call, after
   any calls before it, leaves the parameter set and the caller's two
   expressions as they were, returns a mapping (that function's names), and
   returns the mapping that the same call returned one or two calls earlier. *)
C8_Stateless ==
    [][/\ set_of_parameters' = set_of_parameters
       /\ args' = <<last'.n, last'.p>>
       /\ last'.fn \in {OCP, ETA}
       /\ DOMAIN last'.ret = Names(last'.fn)
       /\ SameCall(last', last) => last'.ret = last.ret
       /\ SameCall(last', prev) => last'.ret = prev.ret]_vars

(* The latest call repeats the call before, on a uniform negative argument
   (which the function broadcasts), and returned the same mapping *)
C8_Witness ==
    /\ last.fn = OCP
    /\ SameCall(last, prev)
    /\ last.ret = prev.ret
    /\ last.n.domain = <<>>
    /\ args = <<last.n, last.p>>
    /\ Field_n # last.n

NegativeNames(fn) ==
    IF fn = OCP
    THEN {"Negative electrode open circuit potential",
          "Average negative electrode open circuit potential",
          "Negative electrode open circuit potential [V]",
          "Average negative electrode open circuit potential [V]"}
    ELSE {"Negative reaction overpotential", "Average negative reaction overpotential",
          "Negative reaction overpotential [V]",
          "Average negative reaction overpotential [V]"}

PositiveNames(fn) ==
    IF fn = OCP
    THEN {"Positive electrode open circuit potential",
          "Average positive electrode open circuit potential",
          "Positive electrode open circuit potential [V]",
          "Average positive electrode open circuit potential [V]"}
    ELSE {"Positive reaction overpotential", "Average positive reaction overpotential",
          "Positive reaction overpotential [V]",
          "Average positive reaction overpotential [V]"}

(* C9: two calls of the same function that agree on the negative argument
   agree on every entry named after the negative electrode, whatever their
   positive arguments are, and symmetrically for the positive electrode. *)
C9_PerElectrode ==
    (last.fn \in {OCP, ETA} /\ prev.fn = last.fn) =>
        /\ last.n = prev.n => \A k \in NegativeNames(last.fn) : last.ret[k] = prev.ret[k]
        /\ last.p = prev.p => \A k \in PositiveNames(last.fn) : last.ret[k] = prev.ret[k]

(* Two calls of the same function with the same negative and different
   positive arguments: the entries left over, which combine both electrodes,
   all differ *)
C9_Witness ==
    /\ last.fn \in {OCP, ETA} /\ prev.fn = last.fn
    /\ last.n = prev.n
    /\ last.p # prev.p
    /\ \A k \in Names(last.fn) \ (NegativeNames(last.fn) \cup PositiveNames(last.fn)) :
          /\ last.ret[k] # prev.ret[k]
          /\ Eval(last.ret[k]) # Eval(prev.ret[k])

(* C10: when both arguments of get_derived_open_circuit_potentials have an
   empty domain, each electrode's average equals its boundary value, so the
   average and the measured voltage are equal, dimensionless and in volts. *)
C10_UniformInputs ==
    (last.fn = OCP /\ last.n.domain = <<>> /\ last.p.domain = <<>>) =>
        /\ Val("Average negative electrode open circuit potential") =
              Eval(BoundaryValue(Field_n, "left"))
        /\ Val("Average positive electrode open circuit potential") =
              Eval(BoundaryValue(Field_p, "right"))
        /\ Val("Average negative electrode open circuit potential") = Eval(last.n)
        /\ Val("Average positive electrode open circuit potential") = Eval(last.p)
        /\ Val("Average open circuit voltage") = Val("Measured open circuit voltage")
        /\ Val("Average open circuit voltage [V]") = Val("Measured open circuit voltage [V]")

(* A call on two uniform non-zero values over electrodes of different lengths,
   after a call on two fields that vary in space, for which the average and
   the measured voltage differ *)
C10_Witness ==
    /\ last.fn = OCP
    /\ last.n.domain = <<>> /\ last.p.domain = <<>>
    /\ ~IsZero(Eval(last.n)) /\ ~IsZero(Eval(last.p))
    /\ set_of_parameters["l_n"] # set_of_parameters["l_p"]
    /\ Val("Average open circuit voltage") = Val("Measured open circuit voltage")
    /\ prev.fn = OCP
    /\ prev.n.op = "Variable" /\ prev.p.op = "Variable"
    /\ Eval(prev.ret["Average open circuit voltage"]) #
          Eval(prev.ret["Measured open circuit voltage"])
    /\ Eval(prev.ret["Average open circuit voltage [V]"]) #
          Eval(prev.ret["Measured open circuit voltage [V]"])

====
